---- MODULE Spec2Model ----
(***************************************************************************)
(* A model of yeti.py: the Database singleton, the ModelClass metaclass,   *)
(* the Field hierarchy and the Model record operations (get, get_all,      *)
(* save, attribute and item writes), together with the part of the SQLite  *)
(* store these operations drive.                                           *)
(*                                                                         *)
(* A Python str is a sequence of glyphs; a glyph is the single quote "'",  *)
(* a decimal digit, or a run of other characters.  A Python value is a     *)
(* record [t, s, n]: t is the type, s the glyphs of a str, n the number of *)
(* an int (for a Model instance held in a field: the value of its ['id'],  *)
(* 0 when it has none).                                                    *)
(***************************************************************************)
EXTENDS Integers, Sequences, FiniteSets, TLC

\* ---------------------------------------------------------------- bounds
MaxRows == 2
MaxDbs == 3
MaxWrites == 1
MaxKwargs == 2

\* ---------------------------------------------------------- Python values
PyNone == [t |-> "None", s |-> <<>>, n |-> 0]
PyStr(s) == [t |-> "str", s |-> s, n |-> 0]
PyInt(n) == [t |-> "int", s |-> <<>>, n |-> n]
PyObj(n) == [t |-> "Model", s |-> <<>>, n |-> n]
Raise(e) == [t |-> "raise", s |-> <<e>>, n |-> 0]
IsRaise(v) == v.t = "raise"

Digits == <<"0", "1", "2", "3", "4", "5", "6", "7", "8", "9">>
IsDigit(g) == \E i \in 1..10 : Digits[i] = g
DigitVal(g) == (CHOOSE i \in 1..10 : Digits[i] = g) - 1

RECURSIVE Str(_)
\* str(n) / '%d' % n of a non-negative int
Str(n) == IF n < 10 THEN <<Digits[n + 1]>> ELSE Str(n \div 10) \o <<Digits[(n % 10) + 1]>>

RECURSIVE Replace(_)
\* value.replace("'", "''")
Replace(s) == IF s = <<>> THEN <<>> ELSE (IF Head(s) = "'" THEN <<"'", "'">> ELSE <<Head(s)>>) \o Replace(Tail(s))

\* str(v), as used by '%s' interpolation
FmtS(v) ==
  CASE v.t = "str" -> v.s
    [] v.t = "int" -> Str(v.n)
    [] v.t = "None" -> <<"None">>
    [] OTHER -> <<"{", "}">>

\* ---------------------------------------------------------------- fields
Fld(name, kind, unique, null, auto, bind) == [name |-> name, kind |-> kind, unique |-> unique, null |-> null, autoincrement |-> auto, bind_model |-> bind]

\* the models the application declares, in declaration order
ModelNames == <<"User", "Post">>

Fields(m) ==
  IF m = "User"
  THEN << Fld("id", "PrimaryKey", FALSE, TRUE, TRUE, ""),
          Fld("name", "TextField", TRUE, TRUE, FALSE, ""),
          Fld("age", "IntegerField", FALSE, TRUE, FALSE, "") >>
  ELSE << Fld("id", "PrimaryKey", FALSE, TRUE, FALSE, ""),
          Fld("title", "TextField", FALSE, FALSE, FALSE, ""),
          Fld("author", "ForeignKey", FALSE, TRUE, FALSE, "User") >>

\* the field names in reverse of the declaration order
FieldNames_reversed(m) == [i \in 1..Len(Fields(m)) |-> Fields(m)[Len(Fields(m)) + 1 - i].name]

\* ", ".join(cls.fields): the field names in declaration order
FieldNames(m) == [i \in 1..Len(Fields(m)) |-> Fields(m)[i].name]
HasField(m, k) == \E i \in 1..Len(Fields(m)) : Fields(m)[i].name = k
FieldOf(m, k) == Fields(m)[CHOOSE i \in 1..Len(Fields(m)) : Fields(m)[i].name = k]

sqlite_field_name(f) ==
  CASE f.kind = "TextField" -> "TEXT"
    [] f.kind = "IntegerField" -> "INTEGER"
    [] f.kind = "PrimaryKey" -> "INTEGER PRIMARY KEY"
    [] OTHER -> "INTEGER"

\* Field.__get_sqlite_def__ and PrimaryKey.__get_sqlite_def__, as the tokens of the column definition
get_sqlite_def(f) ==
  <<f.name, sqlite_field_name(f)>>
    \o (IF ~f.null THEN <<"NOT NULL">> ELSE <<>>)
    \o (IF f.unique THEN <<"UNIQUE">> ELSE <<>>)
    \o (IF f.kind = "PrimaryKey" /\ f.autoincrement THEN <<"AUTOINCREMENT">> ELSE <<>>)

\* Field.validate / TextField.validate
validate(f, v) == IF f.kind = "TextField" THEN v.t = "str" ELSE TRUE

\* Field.prepare / TextField.prepare / ForeignKey.prepare
prepare(f, v) ==
  CASE f.kind = "TextField" ->
         (CASE v.t = "str" -> PyStr(<<"'">> \o Replace(v.s) \o <<"'">>)
            [] v.t = "Model" -> Raise("TypeError")
            [] OTHER -> Raise("AttributeError"))
    [] f.kind = "ForeignKey" ->
         (IF v.t = "Model" /\ v.n # 0 THEN PyStr(Str(v.n)) ELSE Raise("TypeError"))
    [] OTHER -> v

\* ------------------------------------------------------- the SQLite store
\* A stored value is the Python value the sqlite3 adapter hands back for it:
\* NULL is PyNone, an INTEGER is PyInt, a TEXT is PyStr.
RECURSIVE WellQuoted(_)
\* the inside of a '...' literal: every quote is doubled
WellQuoted(s) ==
  IF s = <<>> THEN TRUE
  ELSE IF Head(s) = "'" THEN Len(s) >= 2 /\ s[2] = "'" /\ WellQuoted(Tail(Tail(s)))
  ELSE WellQuoted(Tail(s))

RECURSIVE UnDouble(_)
UnDouble(s) ==
  IF s = <<>> THEN <<>>
  ELSE IF Head(s) = "'" THEN <<"'">> \o UnDouble(Tail(Tail(s)))
  ELSE <<Head(s)>> \o UnDouble(Tail(s))

AllDigits(s) == Len(s) >= 1 /\ \A i \in 1..Len(s) : IsDigit(s[i])

RECURSIVE ToInt(_)
ToInt(s) == IF Len(s) = 1 THEN DigitVal(s[1]) ELSE 10 * ToInt(SubSeq(s, 1, Len(s) - 1)) + DigitVal(s[Len(s)])

Ident(s) == [t |-> "ident", s |-> s, n |-> 0]

\* SQLite's reading of one bare token of a VALUES or SET list
ParseLit(g) ==
  CASE Len(g) >= 2 /\ g[1] = "'" /\ g[Len(g)] = "'" /\ WellQuoted(SubSeq(g, 2, Len(g) - 1)) ->
         PyStr(UnDouble(SubSeq(g, 2, Len(g) - 1)))
    [] AllDigits(g) -> PyInt(ToInt(g))
    [] Len(g) = 1 /\ g[1] # "'" -> Ident(g)
    [] OTHER -> Raise("OperationalError")

IntAffinity(f) == f.kind # "TextField"

\* column affinity applied to a value on its way into a column
Affinity(f, v) ==
  CASE ~IntAffinity(f) /\ v.t = "int" -> PyStr(Str(v.n))
    [] IntAffinity(f) /\ v.t = "str" /\ AllDigits(v.s) -> PyInt(ToInt(v.s))
    [] OTHER -> v

IndexOf(seq, x) == CHOOSE i \in 1..Len(seq) : seq[i] = x
Contains(seq, x) == \E i \in 1..Len(seq) : seq[i] = x

RECURSIVE MaxId(_)
MaxId(rows) ==
  IF rows = <<>> THEN 0
  ELSE LET r == MaxId(Tail(rows))
       IN IF Head(rows)["id"].t = "int" /\ Head(rows)["id"].n > r THEN Head(rows)["id"].n ELSE r

\* the NOT NULL, UNIQUE and PRIMARY KEY checks of row `row` against the other rows
Violates(m, row, others) ==
  \E i \in 1..Len(Fields(m)) :
    LET f == Fields(m)[i]
    IN \/ (f.kind = "PrimaryKey" /\ row[f.name].t # "int")
       \/ (~f.null /\ row[f.name] = PyNone)
       \/ /\ (f.unique \/ f.kind = "PrimaryKey")
          /\ row[f.name] # PyNone
          /\ \E j \in 1..Len(others) : others[j][f.name] = row[f.name]

StoreResult(exc, rows) == [exc |-> exc, rows |-> rows]

\* the row an INSERT builds: the parsed values under their columns, NULL elsewhere
InsertedRow(m, cols, parsed) ==
  [k \in {Fields(m)[i].name : i \in 1..Len(Fields(m))} |->
     IF Contains(cols, k) THEN Affinity(FieldOf(m, k), parsed[IndexOf(cols, k)]) ELSE PyNone]

\* a row without an id gets the next rowid
WithRowid(raw, rows) == IF raw["id"] = PyNone THEN [raw EXCEPT !["id"] = PyInt(MaxId(rows) + 1)] ELSE raw

\* the constraint checks of an INSERT, then the row appended
InsertChecked(m, row, T) ==
  IF Violates(m, row, T.rows) THEN StoreResult("IntegrityError", T.rows) ELSE StoreResult("", Append(T.rows, row))

InsertParsed(m, cols, parsed, T) ==
  CASE ~T.exists -> StoreResult("OperationalError", T.rows)
    [] cols = <<>> -> StoreResult("OperationalError", T.rows)
    [] \E i \in 1..Len(parsed) : parsed[i].t \in {"raise", "ident"} -> StoreResult("OperationalError", T.rows)
    [] \E i \in 1..Len(cols) : ~HasField(m, cols[i]) -> StoreResult("OperationalError", T.rows)
    [] OTHER -> InsertChecked(m, WithRowid(InsertedRow(m, cols, parsed), T.rows), T)

\* INSERT INTO m (cols) VALUES (vals); on table T
SqlInsert(m, cols, vals, T) == InsertParsed(m, cols, [i \in 1..Len(vals) |-> ParseLit(vals[i])], T)

\* the value of a parsed SET token in the row being updated
SetValue(m, p, row) == IF p.t = "ident" THEN row[p.s[1]] ELSE p

Without(rows, i) == SubSeq(rows, 1, i - 1) \o SubSeq(rows, i + 1, Len(rows))

\* the row an UPDATE makes of row: the parsed values under their columns, the rest as it was
UpdatedRow(m, cols, parsed, row) ==
  [k \in DOMAIN row |->
     IF Contains(cols, k) THEN Affinity(FieldOf(m, k), SetValue(m, parsed[IndexOf(cols, k)], row)) ELSE row[k]]

\* the rows of an UPDATE ... WHERE id=n, the rows of that id updated
UpdatedRows(m, cols, parsed, n, rows) ==
  [i \in 1..Len(rows) |-> IF rows[i]["id"] = PyInt(n) THEN UpdatedRow(m, cols, parsed, rows[i]) ELSE rows[i]]

\* the constraint checks of an UPDATE that turns the rows of id n into those of rows2
UpdateChecked(m, n, rows2, T) ==
  IF \E i \in 1..Len(rows2) : rows2[i]["id"] = PyInt(n) /\ Violates(m, rows2[i], Without(rows2, i))
  THEN StoreResult("IntegrityError", T.rows)
  ELSE StoreResult("", rows2)

UpdateParsed(m, cols, parsed, n, T) ==
  CASE ~T.exists -> StoreResult("OperationalError", T.rows)
    [] cols = <<>> -> StoreResult("OperationalError", T.rows)
    [] \E i \in 1..Len(parsed) : parsed[i].t = "raise" \/ (parsed[i].t = "ident" /\ ~HasField(m, parsed[i].s[1])) ->
         StoreResult("OperationalError", T.rows)
    [] \E i \in 1..Len(cols) : ~HasField(m, cols[i]) -> StoreResult("OperationalError", T.rows)
    [] OTHER -> UpdateChecked(m, n, UpdatedRows(m, cols, parsed, n, T.rows), T)

\* UPDATE m SET cols=vals WHERE id=idlit; on table T
SqlUpdate(m, cols, vals, idlit, T) ==
  UpdateParsed(m, cols, [i \in 1..Len(vals) |-> ParseLit(vals[i])], ToInt(idlit), T)

Where(col, lit) == [col |-> col, lit |-> lit]

\* col="lit": a double-quoted token names a column when there is one of that name, and is a string literal otherwise
Equal(lhs, rhs) == lhs # PyNone /\ rhs # PyNone /\ lhs = rhs

\* column f of the row against rhs0, which is column g when isCol and a string literal otherwise:
\* an operand without integer affinity takes the integer affinity of the other
Compare(f, lhs0, isCol, g, rhs0) ==
  Equal(IF isCol /\ ~IntAffinity(f) /\ IntAffinity(g) THEN Affinity(g, lhs0) ELSE lhs0,
        IF IntAffinity(f) /\ (~isCol \/ ~IntAffinity(g)) THEN Affinity(f, rhs0) ELSE rhs0)

IsColumn(m, lit) == Len(lit) = 1 /\ HasField(m, lit[1])

Matches(m, row, w) ==
  IF IsColumn(m, w.lit)
  THEN Compare(FieldOf(m, w.col), row[w.col], TRUE, FieldOf(m, w.lit[1]), row[w.lit[1]])
  ELSE Compare(FieldOf(m, w.col), row[w.col], FALSE, FieldOf(m, w.col), PyStr(w.lit))

RECURSIVE SelectRows(_, _, _)
SelectRows(m, rows, where) ==
  IF rows = <<>> THEN <<>>
  ELSE (IF \A i \in 1..Len(where) : Matches(m, Head(rows), where[i]) THEN <<Head(rows)>> ELSE <<>>)
       \o SelectRows(m, Tail(rows), where)

\* each row as the tuple of its columns cols
Columns(rs, cols) == [i \in 1..Len(rs) |-> [j \in 1..Len(cols) |-> rs[i][cols[j]]]]

\* SELECT cols FROM m [WHERE where]; the rows come back in rowid order, each as the tuple of its columns
SqlSelect(m, cols, where, T) ==
  CASE ~T.exists -> StoreResult("OperationalError", <<>>)
    [] \E i \in 1..Len(where) : ~HasField(m, where[i].col) -> StoreResult("OperationalError", <<>>)
    [] OTHER -> StoreResult("", Columns(SelectRows(m, T.rows, where), cols))

\* ------------------------------------------------------ program state
VARIABLES instance, dbs, bound, tables, rec, writes, ret, log, last
vars == <<instance, dbs, bound, tables, rec, writes, ret, log, last>>
\* instance: Database.instance, the index in dbs of the active Database (0: the attribute is not set)
\* dbs:      every Database object created so far: its name, its models (names, in registration order), whether its connection is open
\* bound:    per declared model its _Model__database, an index in dbs (0: the class is not declared yet)
\* tables:   per model the table of its name in the store of the database the model is bound to
\* rec:      the Model instance the application holds (cls = "": none)
\* writes:   how many attribute and item writes the application has made on rec
\* ret:      what the last operation returned, when it was a get or a get_all
\* log:      what the last operation did, in order: statements executed, commits, logging.error calls, connections closed
\* last:     the last operation, the exception it raised ("" when it returned) and the value it returned

ModelSet == {ModelNames[i] : i \in 1..Len(ModelNames)}

NoSql == [kind |-> "", ine |-> FALSE, table |-> "", cols |-> <<>>, defs |-> <<>>, vals |-> <<>>, where |-> <<>>, id |-> <<>>]
CreateTable(ine, m, defs) == [NoSql EXCEPT !.kind = "CREATE TABLE", !.ine = ine, !.table = m, !.defs = defs]
Select(m, cols, where) == [NoSql EXCEPT !.kind = "SELECT", !.table = m, !.cols = cols, !.where = where]
Insert(m, cols, vals) == [NoSql EXCEPT !.kind = "INSERT", !.table = m, !.cols = cols, !.vals = vals]
Update(m, cols, vals, id) == [NoSql EXCEPT !.kind = "UPDATE", !.table = m, !.cols = cols, !.vals = vals, !.id = id]

Event(e, d, sql) == [e |-> e, db |-> d, sql |-> sql]
\* op: the operation; exc: the exception it raised; cls, db, arg, new: the model, the database, the
\* keyword arguments and the _new flag it was called with; val: the value an attribute read returned
Last(op, exc, m, d, arg, new, val) == [op |-> op, exc |-> exc, cls |-> m, db |-> d, arg |-> arg, new |-> new, val |-> val]

Record(m, fd, new) == [cls |-> m, field_dict |-> fd, new |-> new]
NoRecord == Record("", <<>>, TRUE)
Item(k, v) == [k |-> k, v |-> v]
Returned(kind, recs) == [kind |-> kind, recs |-> recs]
NoneReturned == Returned("None", <<>>)

HasKey(fd, k) == \E i \in 1..Len(fd) : fd[i].k = k
\* field_dict.get(k)
DictGet(fd, k) == IF HasKey(fd, k) THEN fd[CHOOSE i \in 1..Len(fd) : fd[i].k = k].v ELSE PyNone
\* field_dict[k] = v: a key already there keeps its place, a new key goes last
DictSet(fd, k, v) ==
  IF HasKey(fd, k)
  THEN [i \in 1..Len(fd) |-> IF fd[i].k = k THEN Item(k, v) ELSE fd[i]]
  ELSE Append(fd, Item(k, v))

RECURSIVE Retained(_, _)
\* Model.__init__: the keyword arguments that name a field and pass its validate, in the order given
Retained(m, kwargs) ==
  IF kwargs = <<>> THEN <<>>
  ELSE (IF HasField(m, Head(kwargs).k) /\ validate(FieldOf(m, Head(kwargs).k), Head(kwargs).v)
        THEN <<Head(kwargs)>> ELSE <<>>)
       \o Retained(m, Tail(kwargs))

ModelInit(m, kwargs) == Record(m, Retained(m, kwargs), TRUE)

\* where_list of get / get_all
WhereList(kwargs) == [i \in 1..Len(kwargs) |-> Where(kwargs[i].k, FmtS(kwargs[i].v))]

GetResult(exc, val, lg) == [exc |-> exc, val |-> val, log |-> lg]

RECURSIVE ModelGet(_, _, _, _)
RECURSIVE Decode(_, _, _, _, _)
\* what ForeignKey.get returns when its lookup gave g: the Record found (held as a reference to it), or None
Looked(g) ==
  GetResult(g.exc,
            IF g.exc = "" /\ g.val.kind = "Record" THEN PyObj(DictGet(g.val.recs[1].field_dict, "id").n) ELSE PyNone,
            g.log)

\* ForeignKey.get / Field.get of one fetched column
FieldGet(f, value, d, T) ==
  IF f.kind = "ForeignKey"
  THEN Looked(ModelGet(f.bind_model, <<Item("id", value)>>, d, T))
  ELSE GetResult("", value, <<>>)

\* one step of the loop of Model.get: the entry of field k decoded as one, before the entries rest
DecodeStep(k, one, rest) ==
  GetResult(rest.exc, IF rest.exc # "" THEN <<>> ELSE <<Item(k, one.val)>> \o rest.val, one.log \o rest.log)

\* column i decoded as one: an exception ends the loop
DecodeFrom(m, row, i, one, d, T) ==
  IF one.exc # "" THEN GetResult(one.exc, <<>>, one.log)
  ELSE DecodeStep(Fields(m)[i].name, one, Decode(m, row, i + 1, d, T))

\* the loop of Model.get over zip(column_names, query_result), from column i on
Decode(m, row, i, d, T) ==
  IF i > Len(Fields(m)) THEN GetResult("", <<>>, <<>>)
  ELSE DecodeFrom(m, row, i, FieldGet(Fields(m)[i], row[i], d, T), d, T)

\* cls(**field_dict) with _new cleared, dec being the decoded row
Loaded(m, dec, ev) ==
  IF dec.exc # "" THEN GetResult(dec.exc, NoneReturned, ev \o dec.log)
  ELSE GetResult("", Returned("Record", <<[ModelInit(m, dec.val) EXCEPT !.new = FALSE]>>), ev \o dec.log)

\* Model.get after its SELECT gave r: fetchone, and the row decoded when there is one
Fetched(m, r, ev, d, T) ==
  IF r.exc # "" THEN GetResult(r.exc, NoneReturned, ev)
  ELSE IF r.rows = <<>> THEN GetResult("", NoneReturned, ev)
  ELSE Loaded(m, Decode(m, r.rows[1], 1, d, T), ev)

\* Model.get(**kwargs) of model m; d maps models to databases and T models to tables
ModelGet(m, kwargs, d, T) ==
  Fetched(m, SqlSelect(m, FieldNames(m), WhereList(kwargs), T[m]),
          <<Event("execute", d[m], Select(m, FieldNames(m), WhereList(kwargs)))>>, d, T)

\* cls(**dict(zip(column_names, item))) with _new cleared: the fetched values go to the constructor as they are
FetchedObject(m, cols, item) == [ModelInit(m, [i \in 1..Len(cols) |-> Item(cols[i], item[i])]) EXCEPT !.new = FALSE]

\* Model.get_all after its SELECT gave r: fetchall, and one object per row when there is a row
FetchedAll(m, cols, r, ev) ==
  IF r.exc # "" THEN GetResult(r.exc, NoneReturned, ev)
  ELSE IF r.rows = <<>> THEN GetResult("", NoneReturned, ev)
  ELSE GetResult("", Returned("list", [j \in 1..Len(r.rows) |-> FetchedObject(m, cols, r.rows[j])]), ev)

\* Model.get_all(**kwargs)
ModelGetAll(m, kwargs, d, T) ==
  FetchedAll(m, FieldNames(m), SqlSelect(m, FieldNames(m), WhereList(kwargs), T[m]),
             <<Event("execute", d[m], Select(m, FieldNames(m), WhereList(kwargs)))>>)

SaveResult(exc, rows, lg) == [exc |-> exc, rows |-> rows, log |-> lg]

\* the first loop of presave: the first exception raised by self.fields[name] or prepare, "" when none
PrepareError(m, fd) ==
  LET bad(i) == ~HasField(m, fd[i].k) \/ IsRaise(prepare(FieldOf(m, fd[i].k), fd[i].v))
  IN IF \E i \in 1..Len(fd) : bad(i)
     THEN LET i == CHOOSE i \in 1..Len(fd) : bad(i) /\ \A j \in 1..(i - 1) : ~bad(j)
          IN IF ~HasField(m, fd[i].k) THEN "KeyError" ELSE prepare(FieldOf(m, fd[i].k), fd[i].v).s[1]
     ELSE ""

\* the store's answer to the INSERT or UPDATE statement sql on table T
SqlWrite(sql, T) ==
  IF sql.kind = "INSERT"
  THEN SqlInsert(sql.table, sql.cols, sql.vals, T)
  ELSE SqlUpdate(sql.table, sql.cols, sql.vals, sql.id, T)

\* presave without its except clause: the IntegrityError leaves presave
ExecuteSave_uncaught(st, sql, T, d) == SaveResult(st.exc, st.rows, <<Event("execute", d, sql)>>)

\* the try of presave around Database.execute, st being the store's answer to sql: IntegrityError is
\* caught and logged, any other exception leaves presave
ExecuteSave(st, sql, T, d) ==
  IF st.exc = "IntegrityError"
  THEN SaveResult("", T.rows, <<Event("execute", d, sql), Event("error", d, NoSql)>>)
  ELSE SaveResult(st.exc, st.rows, <<Event("execute", d, sql)>>)

\* the two loops of presave over field_dict: field_names, and field_values as prepare returns them
field_names(fd) == [i \in 1..Len(fd) |-> fd[i].k]
field_values(m, fd) == [i \in 1..Len(fd) |-> prepare(FieldOf(m, fd[i].k), fd[i].v)]

\* the statement presave builds from names and values: an INSERT for a record whose _new is set, else
\* an UPDATE; kind "TypeError" when building it raises
SaveSql(m, new, names, values, id) ==
  IF new
  THEN \* ", ".join(field_values) takes strings only
       (IF \E i \in 1..Len(values) : values[i].t # "str"
        THEN [NoSql EXCEPT !.kind = "TypeError"]
        ELSE Insert(m, names, [i \in 1..Len(values) |-> values[i].s]))
  ELSE \* "%d" % self['id'] takes a number only
       (IF id.t # "int"
        THEN [NoSql EXCEPT !.kind = "TypeError"]
        ELSE Update(m, names, [i \in 1..Len(values) |-> FmtS(values[i])], Str(id.n)))

\* presave from its statement on: perr is what the first loop raised, sql what SaveSql built
presave_execute(perr, sql, T, d) ==
  IF perr # "" THEN SaveResult(perr, T.rows, <<>>)
  ELSE IF sql.kind = "TypeError" THEN SaveResult("TypeError", T.rows, <<>>)
  ELSE ExecuteSave(SqlWrite(sql, T), sql, T, d)

\* Model.presave of record r, bound to database d, on table T
presave(r, T, d) ==
  presave_execute(PrepareError(r.cls, r.field_dict),
                  SaveSql(r.cls, r.new, field_names(r.field_dict), field_values(r.cls, r.field_dict),
                          DictGet(r.field_dict, "id")),
                  T, d)

\* Model.commit after presave returned p
commit(p, d) == IF p.exc # "" THEN p ELSE SaveResult("", p.rows, p.log \o <<Event("commit", d, NoSql)>>)

\* Model.save: presave, then commit
save(r, T, d) == commit(presave(r, T, d), d)

InitResult(exc, T, lg) == [exc |-> exc, tables |-> T, log |-> lg]

RECURSIVE InitLoop(_, _, _, _, _)
\* the loop of Database.init over self.models.items(), from model i on: a CREATE TABLE of a table that is there fails unless IF NOT EXISTS
InitLoop(models, i, not_exists, T, d) ==
  IF i > Len(models) THEN InitResult("", T, <<>>)
  ELSE LET m == models[i]
           sql == CreateTable(not_exists, m, [j \in 1..Len(Fields(m)) |-> get_sqlite_def(Fields(m)[j])])
           ev == <<Event("execute", d, sql)>>
       IN IF sql.defs = <<>> \/ (T[m].exists /\ ~not_exists)
          THEN InitResult("OperationalError", T, ev)
          ELSE LET rest == InitLoop(models, i + 1, not_exists, [T EXCEPT ![m].exists = TRUE], d)
               IN InitResult(rest.exc, rest.tables, ev \o rest.log)

RECURSIVE CommitEach(_, _)
CommitEach(lg, d) == IF lg = <<>> THEN <<>> ELSE <<Head(lg), Event("commit", d, NoSql)>> \o CommitEach(Tail(lg), d)

\* init with self.commit() indented into the loop: a commit after every CREATE TABLE
init_commit_in_loop(models, not_exists, T, d) ==
  LET l == InitLoop(models, 1, not_exists, T, d)
  IN IF l.exc # ""
     THEN InitResult(l.exc, l.tables, CommitEach(SubSeq(l.log, 1, Len(l.log) - 1), d) \o <<l.log[Len(l.log)]>>)
     ELSE InitResult("", l.tables, CommitEach(l.log, d))

\* Database.init(not_exists): the loop, then one commit
init(models, not_exists, T, d) ==
  LET l == InitLoop(models, 1, not_exists, T, d)
  IN IF l.exc # "" THEN l ELSE InitResult("", l.tables, l.log \o <<Event("commit", d, NoSql)>>)

\* ------------------------------------------------- the application's inputs
\* the strings the application stores
TextVals == {<<"Ann">>, <<"O", "'", "B">>}
Keys(m) == {Fields(m)[i].name : i \in 1..Len(Fields(m))} \cup {"bogus"}
\* the values the application supplies for a key: the field's own type and, for a text field, a number
ValuesFor(m, k) ==
  CASE ~HasField(m, k) -> {PyInt(30)}
    [] FieldOf(m, k).kind = "TextField" -> {PyStr(t) : t \in TextVals} \cup {PyInt(30)}
    [] FieldOf(m, k).kind = "ForeignKey" -> {PyObj(1)}
    [] FieldOf(m, k).kind = "PrimaryKey" -> {}
    [] OTHER -> {PyInt(30)}
Pairs(m) == UNION {{Item(k, v) : v \in ValuesFor(m, k)} : k \in Keys(m)}
\* keyword arguments: up to MaxKwargs pairs with distinct keys, in any order
KwargsOf(m) ==
  {kw \in UNION {[1..n -> Pairs(m)] : n \in 0..MaxKwargs} :
     \A i, j \in 1..Len(kw) : i # j => kw[i].k # kw[j].k}
KwargsUser == KwargsOf("User")
KwargsPost == KwargsOf("Post")
Kwargs(m) == IF m = "User" THEN KwargsUser ELSE KwargsPost
PairsUser == Pairs("User")
PairsPost == Pairs("Post")
Writes(m) == IF m = "User" THEN PairsUser ELSE PairsPost
DbName(i) == <<"db">> \o Str(i)

\* ---------------------------------------------------------------- actions
Init ==
  /\ instance = 0
  /\ dbs = <<>>
  /\ bound = [m \in ModelSet |-> 0]
  /\ tables = [m \in ModelSet |-> [exists |-> FALSE, rows |-> <<>>]]
  /\ rec = NoRecord
  /\ writes = 0
  /\ ret = NoneReturned
  /\ log = <<>>
  /\ last = Last("", "", "", 0, <<>>, FALSE, PyNone)

\* some model class holds Database object d in its _Model__database
Referenced(d) == \E m \in ModelSet : bound[m] = d

\* Database.__new__ with a name: Database.instance is replaced; the object it held is freed, and its
\* __del__ closes its connection, when nothing else refers to it (the application keeps no reference
\* of its own; the model classes declared under it do)
Released(old) == old # 0 /\ ~Referenced(old)

\* Database(name)
Database_new(name) ==
  /\ Len(dbs) < MaxDbs
  /\ name = DbName(Len(dbs) + 1)
  /\ instance' = Len(dbs) + 1
  /\ dbs' = Append(IF Released(instance) THEN [dbs EXCEPT ![instance].open = FALSE] ELSE dbs,
                   [name |-> name, models |-> <<>>, open |-> TRUE])
  /\ log' = (IF Released(instance) THEN <<Event("close", instance, NoSql)>> ELSE <<>>)
            \o <<Event("connect", Len(dbs) + 1, NoSql)>>
  /\ last' = Last("Database(name)", "", "", Len(dbs) + 1, <<>>, FALSE, PyNone)
  /\ ret' = NoneReturned
  /\ UNCHANGED <<bound, tables, rec, writes>>

\* Database(): the current instance, or the exception when none is set
Database_get ==
  /\ log' = <<>>
  /\ last' = Last("Database()", IF instance = 0 THEN "Exception" ELSE "", "", instance, <<>>, FALSE, PyNone)
  /\ ret' = NoneReturned
  /\ UNCHANGED <<instance, dbs, bound, tables, rec, writes>>

\* class m(Model): ...  -- ModelClass.__new__; a ForeignKey names a class declared before
ModelClass_new(m) ==
  /\ bound[m] = 0
  /\ \A i \in 1..Len(Fields(m)) : Fields(m)[i].kind = "ForeignKey" => bound[Fields(m)[i].bind_model] # 0
  /\ dbs' = IF instance = 0 THEN dbs
            ELSE [dbs EXCEPT ![instance].models = IF Contains(@, m) THEN @ ELSE Append(@, m)]
  /\ bound' = IF instance = 0 THEN bound ELSE [bound EXCEPT ![m] = instance]
  /\ last' = Last("class", IF instance = 0 THEN "Exception" ELSE "", m, instance, <<>>, FALSE, PyNone)
  /\ log' = <<>>
  /\ ret' = NoneReturned
  /\ UNCHANGED <<instance, tables, rec, writes>>

\* the application after db.init(not_exists) gave r
Initialised(d, not_exists, r) ==
  /\ tables' = r.tables
  /\ log' = r.log
  /\ last' = Last("init", r.exc, "", d, <<>>, not_exists, PyNone)

\* db.init(not_exists) on a Database object the program can still reach
Database_init(d, not_exists) ==
  /\ d \in 1..Len(dbs)
  /\ (d = instance \/ Referenced(d))
  /\ Initialised(d, not_exists, init(dbs[d].models, not_exists, tables, d))
  /\ ret' = NoneReturned
  /\ UNCHANGED <<instance, dbs, bound, rec, writes>>

\* m(**kwargs)
Model_init(m, kwargs) ==
  /\ bound[m] # 0
  /\ rec' = ModelInit(m, kwargs)
  /\ log' = <<>>
  /\ writes' = 0
  /\ last' = Last("construct", "", m, bound[m], kwargs, TRUE, PyNone)
  /\ ret' = NoneReturned
  /\ UNCHANGED <<instance, dbs, bound, tables>>

\* the application after m.get(**kwargs) gave g
Got(m, kwargs, g) ==
  /\ ret' = g.val
  /\ log' = g.log
  /\ last' = Last("get", g.exc, m, bound[m], kwargs, FALSE, PyNone)
  /\ rec' = IF g.val.kind = "Record" THEN g.val.recs[1] ELSE rec
  /\ writes' = IF g.val.kind = "Record" THEN 0 ELSE writes

\* rec = m.get(**kwargs) or rec: the application holds on to the record returned
Model_get(m, kwargs) ==
  /\ bound[m] # 0
  /\ Got(m, kwargs, ModelGet(m, kwargs, bound, tables))
  /\ UNCHANGED <<instance, dbs, bound, tables>>

\* the application after m.get_all(**kwargs) gave g
GotAll(m, kwargs, g) ==
  /\ ret' = g.val
  /\ log' = g.log
  /\ last' = Last("get_all", g.exc, m, bound[m], kwargs, FALSE, PyNone)

\* m.get_all(**kwargs)
Model_get_all(m, kwargs) ==
  /\ bound[m] # 0
  /\ GotAll(m, kwargs, ModelGetAll(m, kwargs, bound, tables))
  /\ UNCHANGED <<instance, dbs, bound, tables, rec, writes>>

\* the store holds at most MaxRows rows, over all the tables
RowsWithinBounds(T) == Len(T["User"].rows) + Len(T["Post"].rows) <= MaxRows

\* the application after rec.save() gave r
Saved(r) ==
  /\ tables' = [tables EXCEPT ![rec.cls].rows = r.rows]
  /\ RowsWithinBounds(tables')
  /\ log' = r.log
  /\ last' = Last("save", r.exc, rec.cls, bound[rec.cls], rec.field_dict, rec.new, PyNone)

\* rec.save()
Model_save ==
  /\ rec.cls # ""
  /\ Saved(save(rec, tables[rec.cls], bound[rec.cls]))
  /\ ret' = NoneReturned
  /\ UNCHANGED <<instance, dbs, bound, rec, writes>>

\* Model.__setattr__: a field name writes field_dict, any other name the object's own attribute
setattr(r, item, value) == IF HasField(r.cls, item) THEN [r EXCEPT !.field_dict = DictSet(@, item, value)] ELSE r

\* rec.item = value
Model_setattr(item, value) ==
  /\ rec.cls # ""
  /\ writes < MaxWrites
  /\ writes' = writes + 1
  /\ rec' = setattr(rec, item, value)
  /\ log' = <<>>
  /\ last' = Last("setattr", "", rec.cls, bound[rec.cls], <<Item(item, value)>>, rec.new, PyNone)
  /\ ret' = NoneReturned
  /\ UNCHANGED <<instance, dbs, bound, tables>>

\* Model.__setitem__
setitem(r, key, value) == [r EXCEPT !.field_dict = DictSet(@, key, value)]

\* rec[key] = value
Model_setitem(key, value) ==
  /\ rec.cls # ""
  /\ writes < MaxWrites
  /\ writes' = writes + 1
  /\ rec' = setitem(rec, key, value)
  /\ log' = <<>>
  /\ last' = Last("setitem", "", rec.cls, bound[rec.cls], <<Item(key, value)>>, rec.new, PyNone)
  /\ ret' = NoneReturned
  /\ UNCHANGED <<instance, dbs, bound, tables>>

\* Model.__getattr__: the value kept in field_dict, and nothing else
getattr(r, item) == GetResult("", IF HasField(r.cls, item) THEN DictGet(r.field_dict, item) ELSE PyNone, <<>>)

\* rec.item, read
Model_getattr(item) ==
  /\ rec.cls # ""
  /\ log' = getattr(rec, item).log
  /\ last' = Last("getattr", "", rec.cls, bound[rec.cls], <<Item(item, PyNone)>>, rec.new, getattr(rec, item).val)
  /\ ret' = NoneReturned
  /\ UNCHANGED <<instance, dbs, bound, tables, rec, writes>>

\* the filters the application queries with: none, or the field values of the record it holds
Filters(m) == {<<>>} \cup (IF rec.cls = m THEN {rec.field_dict} ELSE {})

OpenDb == \E i \in 1..MaxDbs : Database_new(DbName(i))
Declare == \E m \in ModelSet : ModelClass_new(m)
InitDb == \E d \in 1..MaxDbs, ne \in BOOLEAN : Database_init(d, ne)
Construct == \E m \in ModelSet : \E kw \in Kwargs(m) : Model_init(m, kw)
Get == \E m \in ModelSet : \E kw \in Filters(m) : Model_get(m, kw)
GetAll == \E m \in ModelSet : \E kw \in Filters(m) : Model_get_all(m, kw)
SetAttr == \E m \in ModelSet : rec.cls = m /\ \E p \in Writes(m) : Model_setattr(p.k, p.v)
SetItem == \E m \in ModelSet : rec.cls = m /\ \E p \in Writes(m) : Model_setitem(p.k, p.v)
GetAttr == \E m \in ModelSet : rec.cls = m /\ \E k \in Keys(m) : Model_getattr(k)

\* the database layer: opening databases, declaring the models, creating the tables
NextDb ==
  \/ OpenDb
  \/ Database_get
  \/ Declare
  \/ InitDb

SpecDb == Init /\ [][NextDb]_vars

\* the state after Database("db1"); class User(Model); class Post(Model); Database().init(True)
InitRec ==
  /\ instance = 1
  /\ dbs = <<[name |-> DbName(1), models |-> ModelNames, open |-> TRUE]>>
  /\ bound = [m \in ModelSet |-> 1]
  /\ tables = [m \in ModelSet |-> [exists |-> TRUE, rows |-> <<>>]]
  /\ rec = NoRecord
  /\ writes = 0
  /\ ret = NoneReturned
  /\ log = init(ModelNames, TRUE, [m \in ModelSet |-> [exists |-> FALSE, rows |-> <<>>]], 1).log
  /\ last = Last("init", "", "", 1, <<>>, TRUE, PyNone)

\* the record layer, on the tables created
Next ==
  \/ InitDb
  \/ Construct
  \/ Get
  \/ GetAll
  \/ Model_save
  \/ SetAttr
  \/ SetItem
  \/ GetAttr

Spec == InitRec /\ [][Next]_vars

\* ------------------------------------------------------------- the claims
Executes(lg, kind) == {i \in 1..Len(lg) : lg[i].e = "execute" /\ lg[i].sql.kind = kind}
KeysOf(fd) == [i \in 1..Len(fd) |-> fd[i].k]
\* the declaration order of the fields of a model
DeclOrder(m) == [i \in 1..Len(Fields(m)) |-> Fields(m)[i].name]
\* every entry names a declared field and holds a value its validate accepts
WellFormed(m, fd) == \A i \in 1..Len(fd) : HasField(m, fd[i].k) /\ validate(FieldOf(m, fd[i].k), fd[i].v)

\* C1: on one Record instance the first save() that returns leaves it persisted (_new false), and a
\* save() that follows a save() which executed the INSERT executes one UPDATE and no INSERT.
C1_FirstSaveInsertsLaterSavesUpdate ==
  [][(last'.op = "save" /\ last'.exc = "")
       => /\ ~rec'.new
          /\ (last.op = "save" /\ last.exc = "" /\ Executes(log, "INSERT") # {})
               => (Executes(log', "INSERT") = {} /\ Cardinality(Executes(log', "UPDATE")) = 1)]_vars

\* C2 as stated: every CREATE TABLE, SELECT and INSERT executed lists the columns in the declaration
\* order of the model's fields.
C2_AllStatementsInDeclarationOrder ==
  \A i \in 1..Len(log) : log[i].e = "execute" =>
    /\ log[i].sql.kind = "CREATE TABLE" => [j \in 1..Len(log[i].sql.defs) |-> log[i].sql.defs[j][1]] = DeclOrder(log[i].sql.table)
    /\ log[i].sql.kind \in {"SELECT", "INSERT"} => log[i].sql.cols = DeclOrder(log[i].sql.table)

\* C2 amended: CREATE TABLE and SELECT list the columns in declaration order; the INSERT of a save()
\* lists the names held in the record's field_dict, in the order they were first stored there.
C2_CreateSelectDeclOrderInsertDictOrder ==
  \A i \in 1..Len(log) : log[i].e = "execute" =>
    /\ log[i].sql.kind = "CREATE TABLE" => [j \in 1..Len(log[i].sql.defs) |-> log[i].sql.defs[j][1]] = DeclOrder(log[i].sql.table)
    /\ log[i].sql.kind = "SELECT" => log[i].sql.cols = DeclOrder(log[i].sql.table)
    /\ log[i].sql.kind = "INSERT" => (last.op = "save" /\ log[i].sql.cols = KeysOf(rec.field_dict))

\* an INSERT was executed whose columns are two fields in the reverse of their declaration order
C2_Witness ==
  /\ last.op = "save"
  /\ \E i \in Executes(log, "INSERT") : log[i].sql.cols = <<"author", "title">>

\* C3: a get() with the record's own field values as filters, right after save() on that new record,
\* returns a persisted Record holding every value the record held.
C3_SaveThenGetRoundTrips ==
  [][(/\ last.op = "save" /\ last.new /\ last.arg # <<>> /\ WellFormed(last.cls, last.arg)
      /\ last'.op = "get" /\ last'.cls = last.cls /\ last'.arg = last.arg)
       => /\ last'.exc = ""
          /\ ret'.kind = "Record"
          /\ ~ret'.recs[1].new
          /\ \A i \in 1..Len(last.arg) : DictGet(ret'.recs[1].field_dict, last.arg[i].k) = last.arg[i].v]_vars

ForeignKeys(m) == {i \in 1..Len(Fields(m)) : Fields(m)[i].kind = "ForeignKey"}
\* the statements of lg that query model bm
LookupsOf(lg, bm) == {i \in Executes(lg, "SELECT") : lg[i].sql.table = bm}

\* C4: get and get_all query only their own table, and the Records they return keep the raw stored id
\* of a foreign key; a read of a foreign-key field that holds a value, on a Record loaded from the
\* store, performs exactly one query of the referenced model.
C4_ForeignKeyResolvedOnRead ==
  /\ last.op \in {"get", "get_all"} =>
       \A i \in ForeignKeys(last.cls) :
         /\ LookupsOf(log, Fields(last.cls)[i].bind_model) = {}
         /\ \A j \in 1..Len(ret.recs) : DictGet(ret.recs[j].field_dict, Fields(last.cls)[i].name).t \in {"int", "None"}
  /\ (/\ last.op = "getattr" /\ ~last.new
      /\ HasField(last.cls, last.arg[1].k) /\ FieldOf(last.cls, last.arg[1].k).kind = "ForeignKey"
      /\ DictGet(rec.field_dict, last.arg[1].k) # PyNone)
       => Cardinality(LookupsOf(log, FieldOf(last.cls, last.arg[1].k).bind_model)) = 1

\* the record holds a string in a text field and a number in an integer field, and nothing else
TextAndNumber(m, fd) ==
  /\ \A i \in 1..Len(fd) : HasField(m, fd[i].k) /\ \/ (FieldOf(m, fd[i].k).kind = "TextField" /\ fd[i].v.t = "str")
                                                   \/ (FieldOf(m, fd[i].k).kind = "IntegerField" /\ fd[i].v.t = "int")
  /\ \E i \in 1..Len(fd) : fd[i].v.t = "str"
  /\ \E i \in 1..Len(fd) : fd[i].v.t = "int"

\* C5: save() of a new record holding a string in a text field and a number in an integer field returns
\* and has executed one INSERT, the string single-quoted and the number bare.
C5_SaveTextAndNumberInserts ==
  (last.op = "save" /\ last.new /\ TextAndNumber(last.cls, last.arg))
    => /\ last.exc = ""
       /\ Cardinality(Executes(log, "INSERT")) = 1
       /\ \A i \in Executes(log, "INSERT") :
            /\ log[i].sql.table = last.cls
            /\ log[i].sql.cols = KeysOf(last.arg)
            /\ log[i].sql.vals = [j \in 1..Len(last.arg) |-> IF last.arg[j].v.t = "str" THEN <<"'">> \o Replace(last.arg[j].v.s) \o <<"'">> ELSE Str(last.arg[j].v.n)]

\* the filter names declared fields only, and no row of the model's table satisfies it
MatchesNoRow(m, kwargs) ==
  /\ \A i \in 1..Len(kwargs) : HasField(m, kwargs[i].k)
  /\ \A j \in 1..Len(tables[m].rows) : \E i \in 1..Len(kwargs) : ~Matches(m, tables[m].rows[j], Where(kwargs[i].k, FmtS(kwargs[i].v)))

\* C6: with a filter that no row satisfies get() returns None and get_all() the empty list.
C6_NoRowGivesNoneAndEmptyList ==
  /\ (last.op = "get" /\ MatchesNoRow(last.cls, last.arg)) => (last.exc = "" /\ ret = NoneReturned)
  /\ (last.op = "get_all" /\ MatchesNoRow(last.cls, last.arg)) => (last.exc = "" /\ ret = Returned("list", <<>>))

\* C7: every entry of the field_dict of the record names a declared field and holds a value the
\* field's validate accepts.
C7_FieldDictValidated == rec.cls # "" => WellFormed(rec.cls, rec.field_dict)

\* the store's verdict on a statement of save(), on table T
StoreVerdict(sql, T) == SqlWrite(sql, T).exc

\* C8: a save() whose INSERT or UPDATE the store rejects with an IntegrityError logs the error and
\* returns without raising (and goes on to commit), the table unchanged.
C8_IntegrityErrorSwallowed ==
  [][(/\ last'.op = "save" /\ log' # <<>> /\ log'[1].e = "execute"
      /\ StoreVerdict(log'[1].sql, tables[last'.cls]) = "IntegrityError")
       => /\ last'.exc = ""
          /\ [i \in 1..Len(log') |-> log'[i].e] = <<"execute", "error", "commit">>
          /\ tables' = tables]_vars

\* the UPDATE of a persisted record was rejected by the store and save() returned
C8_Witness ==
  /\ last.op = "save" /\ ~last.new /\ last.exc = ""
  /\ Executes(log, "UPDATE") # {}
  /\ \E i \in 1..Len(log) : log[i].e = "error"

\* the INSERT of a new record was rejected by the store and save() returned
C8_WitnessNew ==
  /\ last.op = "save" /\ last.new /\ last.exc = ""
  /\ Executes(log, "INSERT") # {}
  /\ \E i \in 1..Len(log) : log[i].e = "error"

\* C9: init executes the CREATE TABLE of the registered models one by one in registration order, up to
\* the first one the store refuses; when none is refused it has executed one per model and then commits
\* once, as its last step; when one is refused it raises and does not commit.
C9_InitCreatesInOrderThenCommitsOnce ==
  last.op = "init" =>
    LET models == dbs[last.db].models
        n == Cardinality(Executes(log, "CREATE TABLE"))
        commits == {i \in 1..Len(log) : log[i].e = "commit"}
    IN /\ n <= Len(models)
       /\ \A i \in 1..n : log[i] = Event("execute", last.db, CreateTable(last.new, models[i], [j \in 1..Len(Fields(models[i])) |-> get_sqlite_def(Fields(models[i])[j])]))
       /\ last.exc = "" => (n = Len(models) /\ Len(log) = n + 1 /\ commits = {n + 1})
       /\ last.exc # "" => (Len(log) = n /\ commits = {})

\* init ran on a database with two registered models and returned
C9_Witness ==
  /\ last.op = "init" /\ last.exc = ""
  /\ Len(dbs[last.db].models) = 2
  /\ Cardinality(Executes(log, "CREATE TABLE")) = 2

\* init ran on a database with two registered models and was refused at the first
C9_WitnessRefused ==
  /\ last.op = "init" /\ last.exc # ""
  /\ Len(dbs[last.db].models) = 2

\* C10: once a Database is opened under another name, Database() returns the new object and the
\* connection of every earlier Database object is closed.
C10_SwitchReleasesPriorConnection ==
  /\ (last.op = "Database()" /\ last.exc = "") => last.db = Len(dbs)
  /\ \A d \in 1..Len(dbs) : d # instance => ~dbs[d].open

====
